---- MODULE Spec2Model ----
(***************************************************************************)
(* TransBench: the exam parser (parser.py), the retrying translator        *)
(* (translator.py), the bounded dispatcher translate_task and the process  *)
(* entry point (main.py), and the configuration loader (config.py).        *)
(*                                                                         *)
(* Text is a sequence of tokens; the token " " is whitespace, every other  *)
(* token is an opaque run of non-whitespace characters.                    *)
(***************************************************************************)
EXTENDS Integers, Sequences, FiniteSets, TLC

\* ------------------------------------------------------------------ bounds
MaxItems == 3
MaxWorkers == 2
MaxRetries == 2
MaxLines == 4

\* ------------------------------------------------------------- text values
None == "None"
WS == " "

RECURSIVE LStrip(_)
LStrip(s) == IF s # <<>> /\ Head(s) = WS THEN LStrip(Tail(s)) ELSE s

RECURSIVE RStrip(_)
RStrip(s) ==
    IF s # <<>> /\ s[Len(s)] = WS THEN RStrip(SubSeq(s, 1, Len(s) - 1)) ELSE s

\* str.strip()
Strip(s) == RStrip(LStrip(s))

\* str.startswith
StartsWith(s, tok) == s # <<>> /\ Head(s) = tok

\* ------------------------------------------------------------- translator
SYSTEM_PROMPTS == {"zh_en", "en_zh"}

NoError == [kind |-> None, attempt |-> 0]
UnsupportedTask == [kind |-> "ValueError", attempt |-> 0]
TransportError(attempt) == [kind |-> "Exception", attempt |-> attempt]

TranslationResult(text, error) == [text |-> text, error |-> error]

\* what the remote model may answer for a source (response.content): its
\* translation, with or without surrounding whitespace
Contents(source) == {<<"T">> \o source, <<WS, "T">> \o source \o <<WS, WS>>}

\* time.sleep(0.5 * attempt), in milliseconds
BackoffBaseMs == 500
BackoffMs(attempt) == BackoffBaseMs * attempt

\* range(1, retries + 1) has a next element after `attempt`
HasAttempt(attempt, retries) == attempt <= retries

\* attempt < self.config.retries
AttemptsRemain(attempt, retries) == attempt < retries

\* the frame of one Translator.translate call
IdleFrame ==
    [pc |-> "idle", attempt |-> 0, last_error |-> NoError, calls |-> 0,
     ok_calls |-> 0, sleeps |-> <<>>, result |-> TranslationResult(<<>>, NoError)]

\* ------------------------------------------------------------------ state
VARIABLES
    \* translate_task's arguments and the translator's configuration
    task, items, continue_on_error, workers, retries,
    \* translate_task's locals
    pc, rows, success_count, fail_count, sub_i, cancel_i, yielded, trigger, exc,
    \* the executor: futures, work queue, live worker threads
    futures, queue, threads,
    \* one Translator.translate frame per item
    frames,
    \* parse_exam: the file, the locals, the call number, the first call's outcome
    lines, ps, call_no, first,
    \* main: the process inputs, the position, the exit status, the calls made
    inp, mpc, exit_code, stages

\* what a run of translate_task never assigns
config == <<task, items, continue_on_error, workers, retries>>

dvars == <<task, items, continue_on_error, workers, retries, pc, rows,
           success_count, fail_count, sub_i, cancel_i, yielded, trigger, exc,
           futures, queue, threads, frames>>
pvars == <<lines, ps, call_no, first>>
mvars == <<inp, mpc, exit_code, stages>>
vars == <<dvars, pvars, mvars>>

\* ------------------------------------------------------------- dispatcher
\* an item numbered from 0 (enumerate without start=1)
ExamItemZeroBased(source, line_no) == [source |-> source, line_no |-> line_no - 1]

\* ExamItem(source=..., line_no=...)
ExamItem(source, line_no) == [source |-> source, line_no |-> line_no]

\* the batch of n items handed to translate_task
Batch(n) ==
    [i \in 1..n |-> ExamItem(IF i % 2 = 1 THEN <<"x">> ELSE <<"y", WS, "z">>, i + 2)]

\* a supported direction and an unsupported one
Tasks == {"zh_en", "ja_en"}
RetryValues == (0 - 1)..MaxRetries
N == Len(items)
Idx == 1..N

Running == {i \in Idx : futures[i].state = "RUNNING"}

\* the futures as_completed has yielded so far, `yielded` in arrival order
Yielded == {yielded[k] : k \in 1..Len(yielded)}

\* the abort test left out / applied under either policy
NeverAbort(coe) == FALSE
AlwaysAbort(coe) == TRUE

\* if not continue_on_error
AbortOnError(coe) == ~coe

\* rows: list[tuple[ExamItem, str]] = [(item, "") for item in items]
BlankRows(its) == [i \in 1..Len(its) |-> <<its[i], <<>>>>]

\* the row stored by order of arrival instead of by index
StoreRowMirrored(rs, idx, item, text) ==
    [rs EXCEPT ![Len(rs) + 1 - idx] = <<item, text>>]

\* the row stored in its slot and, again, in the first slot
StoreRowShared(rs, idx, item, text) ==
    [[rs EXCEPT ![1] = <<rs[1][1], text>>] EXCEPT ![idx] = <<item, text>>]

\* the row stored without its text
StoreRowBlank(rs, idx, item, text) == [rs EXCEPT ![idx] = <<item, <<>>>>]

\* rows[idx] = (item, text)
StoreRow(rs, idx, item, text) == [rs EXCEPT ![idx] = <<item, text>>]

\* a lost update of a counter
BumpLost(count) == count

\* success_count += 1 / fail_count += 1
Bump(count) == count + 1

\* translate_task without its empty-batch return
EnterNoEmptyCheck ==
    /\ pc = "entry"
    /\ pc' = "submit"
    /\ rows' = BlankRows(items)
    /\ success_count' = 0
    /\ fail_count' = 0
    /\ sub_i' = 1
    /\ UNCHANGED <<config, cancel_i,
                   yielded, trigger, exc, futures, queue, threads, frames>>
    /\ UNCHANGED <<pvars, mvars>>

\* if not items: return [], 0, 0 ; else the locals and the executor
Enter ==
    /\ pc = "entry"
    /\ IF items = <<>>
       THEN /\ pc' = "returned"
            /\ rows' = <<>>
       ELSE /\ pc' = "submit"
            /\ rows' = BlankRows(items)
    /\ success_count' = 0
    /\ fail_count' = 0
    /\ sub_i' = 1
    /\ UNCHANGED <<config, cancel_i,
                   yielded, trigger, exc, futures, queue, threads, frames>>
    /\ UNCHANGED <<pvars, mvars>>

\* a pool that starts a thread for every submitted item
SubmitThreadEach ==
    /\ pc = "submit"
    /\ futures' = [futures EXCEPT ![sub_i].state = "PENDING"]
    /\ queue' = Append(queue, sub_i)
    /\ threads' = threads + 1
    /\ sub_i' = sub_i + 1
    /\ pc' = IF sub_i = N THEN "collect" ELSE "submit"
    /\ UNCHANGED <<config, rows,
                   success_count, fail_count, cancel_i, yielded, trigger, exc,
                   frames>>
    /\ UNCHANGED <<pvars, mvars>>

\* executor.submit: a pending future, queued; a thread is started while fewer
\* than max_workers are alive (an idle thread reused instead is the behaviour
\* in which the new thread never takes an item)
Submit ==
    /\ pc = "submit"
    /\ futures' = [futures EXCEPT ![sub_i].state = "PENDING"]
    /\ queue' = Append(queue, sub_i)
    /\ threads' = IF threads < workers THEN threads + 1 ELSE threads
    /\ sub_i' = sub_i + 1
    /\ pc' = IF sub_i = N THEN "collect" ELSE "submit"
    /\ UNCHANGED <<config, rows,
                   success_count, fail_count, cancel_i, yielded, trigger, exc,
                   frames>>
    /\ UNCHANGED <<pvars, mvars>>

\* translate returns: the worker sets the future's result
Return(i, frame, result) ==
    /\ frames' = [frames EXCEPT ![i] = [frame EXCEPT !.pc = "done", !.result = result]]
    /\ futures' = [futures EXCEPT ![i] = [state |-> "FINISHED", result |-> result]]

\* translate, up to the first attempt
TranslateEnter(i) ==
    IF task \notin SYSTEM_PROMPTS
    THEN Return(i, frames[i], TranslationResult(<<>>, UnsupportedTask))
    ELSE IF HasAttempt(1, retries)
         THEN /\ frames' = [frames EXCEPT ![i].pc = "call", ![i].attempt = 1]
              /\ futures' = [futures EXCEPT ![i].state = "RUNNING"]
         ELSE Return(i, frames[i], TranslationResult(<<>>, frames[i].last_error))

\* a free worker thread takes the head of the queue; a cancelled work item is
\* dropped (set_running_or_notify_cancel), any other runs translate
WorkerTake ==
    /\ queue # <<>>
    /\ Cardinality(Running) < threads
    /\ LET i == Head(queue) IN
         IF futures[i].state = "CANCELLED"
         THEN UNCHANGED <<futures, frames>>
         ELSE TranslateEnter(i)
    /\ queue' = Tail(queue)
    /\ UNCHANGED <<config, pc, rows,
                   success_count, fail_count, sub_i, cancel_i, yielded, trigger,
                   exc, threads>>
    /\ UNCHANGED <<pvars, mvars>>

\* one attempt: the adapter call answers
AttemptSucceeds(i) ==
    /\ frames[i].pc = "call"
    /\ \E content \in Contents(items[i].source) :
         Return(i, [frames[i] EXCEPT !.calls = @ + 1, !.ok_calls = @ + 1],
                TranslationResult(Strip(content), NoError))
    /\ UNCHANGED <<config, pc, rows,
                   success_count, fail_count, sub_i, cancel_i, yielded, trigger,
                   exc, queue, threads>>
    /\ UNCHANGED <<pvars, mvars>>

\* one attempt: the adapter call raises
AttemptFails(i) ==
    /\ frames[i].pc = "call"
    /\ LET a == frames[i].attempt
           f == [frames[i] EXCEPT !.calls = @ + 1, !.last_error = TransportError(a)]
       IN IF AttemptsRemain(a, retries)
          THEN /\ frames' = [frames EXCEPT ![i] = [f EXCEPT !.pc = "sleep"]]
               /\ UNCHANGED futures
          ELSE IF HasAttempt(a + 1, retries)
               THEN /\ frames' = [frames EXCEPT
                                    ![i] = [f EXCEPT !.attempt = a + 1]]
                    /\ UNCHANGED futures
               ELSE Return(i, f, TranslationResult(<<>>, f.last_error))
    /\ UNCHANGED <<config, pc, rows,
                   success_count, fail_count, sub_i, cancel_i, yielded, trigger,
                   exc, queue, threads>>
    /\ UNCHANGED <<pvars, mvars>>

\* the backoff sleep ends; the loop takes the next attempt
Sleep(i) ==
    /\ frames[i].pc = "sleep"
    /\ LET a == frames[i].attempt
           f == [frames[i] EXCEPT !.sleeps = Append(@, BackoffMs(a))]
       IN IF HasAttempt(a + 1, retries)
          THEN /\ frames' = [frames EXCEPT
                               ![i] = [f EXCEPT !.pc = "call", !.attempt = a + 1]]
               /\ UNCHANGED futures
          ELSE Return(i, f, TranslationResult(<<>>, f.last_error))
    /\ UNCHANGED <<config, pc, rows,
                   success_count, fail_count, sub_i, cancel_i, yielded, trigger,
                   exc, queue, threads>>
    /\ UNCHANGED <<pvars, mvars>>

\* as_completed yields a finished future; the loop body for it
Collect(idx) ==
    /\ pc = "collect"
    /\ idx \notin Yielded
    /\ futures[idx].state = "FINISHED"
    /\ yielded' = Append(yielded, idx)
    /\ LET item == items[idx]
           result == futures[idx].result
       IN IF result.error # NoError
          THEN /\ fail_count' = Bump(fail_count)
               /\ rows' = StoreRow(rows, idx, item, <<>>)
               /\ UNCHANGED success_count
               /\ IF AbortOnError(continue_on_error)
                  THEN /\ pc' = "cancel"
                       /\ cancel_i' = 1
                       /\ trigger' = idx
                       /\ exc' = result.error
                  ELSE UNCHANGED <<pc, cancel_i, trigger, exc>>
          ELSE /\ success_count' = Bump(success_count)
               /\ rows' = StoreRow(rows, idx, item, result.text)
               /\ UNCHANGED <<fail_count, pc, cancel_i, trigger, exc>>
    /\ UNCHANGED <<config, sub_i,
                   futures, queue, threads, frames>>
    /\ UNCHANGED <<pvars, mvars>>

\* as_completed is exhausted: the loop ends and the finally clause is entered
CollectDone ==
    /\ pc = "collect"
    /\ Yielded = Idx
    /\ pc' = "shutdown"
    /\ UNCHANGED <<config, rows,
                   success_count, fail_count, sub_i, cancel_i, yielded, trigger,
                   exc, futures, queue, threads, frames>>
    /\ UNCHANGED <<pvars, mvars>>

\* cancel() with no effect
CancelNothing(f) == f

\* a cancel that also stops a future that is running
CancelRunningToo(f) ==
    IF f.state \in {"PENDING", "RUNNING"} THEN [f EXCEPT !.state = "CANCELLED"] ELSE f

\* Future.cancel: only a future that has not started is cancelled
CancelFuture(f) == IF f.state = "PENDING" THEN [f EXCEPT !.state = "CANCELLED"] ELSE f

\* for pending in futures: pending.cancel() ; then raise result.error
Cancel ==
    /\ pc = "cancel"
    /\ futures' = [futures EXCEPT ![cancel_i] = CancelFuture(@)]
    /\ cancel_i' = cancel_i + 1
    /\ pc' = IF cancel_i = N THEN "shutdown" ELSE "cancel"
    /\ UNCHANGED <<config, rows,
                   success_count, fail_count, sub_i, yielded, trigger, exc,
                   queue, threads, frames>>
    /\ UNCHANGED <<pvars, mvars>>

\* executor.shutdown(wait=True): a worker thread that finds the queue drained
\* takes the shutdown sentinel and exits
ThreadExit ==
    /\ pc = "shutdown"
    /\ queue = <<>>
    /\ Cardinality(Running) < threads
    /\ threads' = threads - 1
    /\ UNCHANGED <<config, pc, rows,
                   success_count, fail_count, sub_i, cancel_i, yielded, trigger,
                   exc, futures, queue, frames>>
    /\ UNCHANGED <<pvars, mvars>>

\* shutdown(wait=False)
NotJoined == TRUE

\* shutdown has joined every thread
Joined == threads = 0

\* the finally clause ends: return rows, success_count, fail_count, or the
\* exception raised in the loop goes on to the caller
Leave ==
    /\ pc = "shutdown"
    /\ Joined
    /\ pc' = IF exc = NoError THEN "returned" ELSE "raised"
    /\ UNCHANGED <<config, rows,
                   success_count, fail_count, sub_i, cancel_i, yielded, trigger,
                   exc, futures, queue, threads, frames>>
    /\ UNCHANGED <<pvars, mvars>>

\* ----------------------------------------------------------------- parser
VALID_TASKS == {"zh_en", "en_zh"}

\* a raw line ends with its newline, which strip() removes like any whitespace
LineAlphabet ==
    { <<"<exam>", WS>>, <<"</exam>", WS>>,
      <<"<zh_en>", WS>>, <<"</zh_en>", WS>>,
      <<"<en_zh>", WS>>, <<"</en_zh>", WS>>,
      <<WS>>, <<WS, "#", "c", WS>>, <<WS, "x", WS, "y", WS>> }

RECURSIVE SeqsUpTo(_, _)
SeqsUpTo(S, n) ==
    IF n = 0 THEN {<<>>}
    ELSE LET shorter == SeqsUpTo(S, n - 1)
         IN shorter \cup {Append(q, x) : q \in {r \in shorter : Len(r) = n - 1}, x \in S}

Files == SeqsUpTo(LineAlphabet, MaxLines)

\* tasks = {"zh_en": [], "en_zh": []}
EmptyTasks == [t \in VALID_TASKS |-> <<>>]

\* a tasks dict that outlives the call
LeakyLocals(prev) ==
    [inside_exam |-> FALSE, seen_exam_start |-> FALSE, seen_exam_end |-> FALSE,
     current_task |-> None, tasks |-> prev.tasks, line_no |-> 0, pc |-> "loop"]

\* the locals parse_exam starts with, whatever an earlier call left
FreshLocals(prev) ==
    [inside_exam |-> FALSE, seen_exam_start |-> FALSE, seen_exam_end |-> FALSE,
     current_task |-> None, tasks |-> EmptyTasks, line_no |-> 0, pc |-> "loop"]

\* stripped[1:-1] of "<zh_en>" / "<en_zh>"
TaskOfMarker(stripped) == IF stripped = <<"<zh_en>">> THEN "zh_en" ELSE "en_zh"

\* the loop body for one line
ParseStep(st, raw, line_no) ==
    LET stripped == Strip(raw)
        at == [st EXCEPT !.line_no = line_no]
    IN IF stripped = <<"<exam>">>
       THEN [at EXCEPT !.inside_exam = TRUE, !.seen_exam_start = TRUE,
                       !.current_task = None]
       ELSE IF stripped = <<"</exam>">>
       THEN [at EXCEPT !.inside_exam = FALSE, !.seen_exam_end = TRUE,
                       !.current_task = None, !.pc = "after"]
       ELSE IF ~st.inside_exam
       THEN at
       ELSE IF stripped \in {<<"<zh_en>">>, <<"<en_zh>">>}
       THEN [at EXCEPT !.current_task = TaskOfMarker(stripped)]
       ELSE IF stripped \in {<<"</zh_en>">>, <<"</en_zh>">>}
       THEN [at EXCEPT !.current_task = None]
       ELSE IF st.current_task = None
       THEN at
       ELSE IF stripped = <<>> \/ StartsWith(stripped, "#")
       THEN at
       ELSE [at EXCEPT !.tasks[st.current_task] =
                           Append(@, ExamItem(stripped, line_no))]

\* a parse that accepts a file with no <exam> container
ParseOutcomeLenient(st) ==
    IF st.inside_exam \/ (st.seen_exam_start /\ ~st.seen_exam_end)
    THEN [status |-> "raised", error |-> "missing </exam>", tasks |-> EmptyTasks]
    ELSE [status |-> "returned", error |-> None, tasks |-> st.tasks]

\* the checks after the loop: raise ValueError or return ParseResult(tasks)
ParseOutcome(st) ==
    IF st.inside_exam \/ (st.seen_exam_start /\ ~st.seen_exam_end)
    THEN [status |-> "raised", error |-> "missing </exam>", tasks |-> EmptyTasks]
    ELSE IF ~st.seen_exam_start
    THEN [status |-> "raised", error |-> "missing <exam> container", tasks |-> EmptyTasks]
    ELSE [status |-> "returned", error |-> None, tasks |-> st.tasks]

NoOutcome == [status |-> "none", error |-> None, tasks |-> EmptyTasks]

\* the loop goes on reading after </exam> (continue in place of break)
ReadPastBreak ==
    /\ call_no \in {1, 2}
    /\ ps.pc \in {"loop", "after"}
    /\ ps.line_no < Len(lines)
    /\ ps' = [ParseStep(ps, lines[ps.line_no + 1], ps.line_no + 1) EXCEPT !.pc = "loop"]
    /\ UNCHANGED <<lines, call_no, first>>
    /\ UNCHANGED <<dvars, mvars>>

\* for line_no, raw in enumerate(f, start=1): the next line
ReadLine ==
    /\ call_no \in {1, 2}
    /\ ps.pc = "loop"
    /\ ps.line_no < Len(lines)
    /\ ps' = ParseStep(ps, lines[ps.line_no + 1], ps.line_no + 1)
    /\ UNCHANGED <<lines, call_no, first>>
    /\ UNCHANGED <<dvars, mvars>>

\* the file is exhausted: the loop ends
Exhausted ==
    /\ call_no \in {1, 2}
    /\ ps.pc = "loop"
    /\ ps.line_no = Len(lines)
    /\ ps' = [ps EXCEPT !.pc = "after"]
    /\ UNCHANGED <<lines, call_no, first>>
    /\ UNCHANGED <<dvars, mvars>>

\* after the loop: parse_exam raises or returns
Finish ==
    /\ call_no \in {1, 2}
    /\ ps.pc = "after"
    /\ ps' = [ps EXCEPT !.pc = ParseOutcome(ps).status]
    /\ UNCHANGED <<lines, call_no, first>>
    /\ UNCHANGED <<dvars, mvars>>

\* parse_exam is called on the same file again
CallAgain ==
    /\ call_no = 1
    /\ ps.pc \in {"returned", "raised"}
    /\ first' = ParseOutcome(ps)
    /\ ps' = FreshLocals(ps)
    /\ call_no' = 2
    /\ UNCHANGED lines
    /\ UNCHANGED <<dvars, mvars>>

\* ------------------------------------------------------------------- main
\* the keyword arguments run() passes to load_config
LoadConfigKwargs ==
    {"continue_on_error", "workers", "zh_en_limit", "en_zh_limit", "random_seed"}

\* the parameters load_config declares
LoadConfigParams == {"continue_on_error", "workers", "env_file"}

\* the fields of AppConfig
AppConfigFields ==
    {"api_key", "base_url", "model_name", "temperature", "max_tokens", "timeout",
     "retries", "workers", "continue_on_error"}

\* the fields of the configuration run() reads
ConfigFieldsRead ==
    {"model_name", "workers", "zh_en_limit", "en_zh_limit", "random_seed",
     "continue_on_error"}

\* a call binds only keyword arguments the callee declares (else TypeError)
Binds(kwargs, params) == kwargs \subseteq params

\* workers if workers is not None else int(os.getenv("WORKERS", "4"));
\* --workers absent is <<>>, --workers n is <<n>>
ResolvedWorkers(i) ==
    IF i.arg_workers # <<>> THEN i.arg_workers[1] ELSE i.env_workers

\* the body of load_config: the error it raises, or None
LoadConfigError(i) ==
    IF ~i.api_key THEN "ValueError: Missing API key"
    ELSE IF ~i.model_name THEN "ValueError: Missing MODEL_NAME"
    ELSE IF ResolvedWorkers(i) <= 0 THEN "ValueError: WORKERS must be a positive integer"
    ELSE None

\* config = load_config(continue_on_error=..., workers=..., zh_en_limit=..., ...)
CallLoadConfig(i) ==
    IF ~Binds(LoadConfigKwargs, LoadConfigParams) THEN "TypeError: unexpected keyword argument"
    ELSE LoadConfigError(i)

\* parse_selected_tasks
SelectedTasksError(tasks) ==
    IF \E k \in 1..Len(tasks) : tasks[k] \notin VALID_TASKS
    THEN "ValueError: Unsupported task" ELSE None

RECURSIVE ParseFrom(_, _)
ParseFrom(st, file) ==
    IF st.pc # "loop" THEN st
    ELSE IF st.line_no = Len(file) THEN [st EXCEPT !.pc = "after"]
    ELSE ParseFrom(ParseStep(st, file[st.line_no + 1], st.line_no + 1), file)

\* parse_exam(input_path)
ParseExam(input) ==
    IF ~input.exists
    THEN [status |-> "raised", error |-> "FileNotFoundError", tasks |-> EmptyTasks]
    ELSE ParseOutcome(ParseFrom(FreshLocals(NoOutcome), input.lines))

\* translate_task as run() sees it: it raises under abort policy when an item
\* of the task exhausts its retries, and returns otherwise
TranslateTaskRaises(i, parsed, tasks) ==
    /\ ~i.continue_on_error
    /\ \E k \in 1..Len(tasks) : parsed.tasks[tasks[k]] # <<>> /\ i.item_fails

\* run(): the calls made in order, and the outcome
Run(i) ==
    LET cfg_err == CallLoadConfig(i)
        sel_err == SelectedTasksError(i.tasks)
        parsed == ParseExam(i.input)
    IN IF cfg_err # None
       THEN [error |-> cfg_err, stages |-> <<"load_config">>]
       ELSE IF sel_err # None
       THEN [error |-> sel_err,
             stages |-> <<"load_config", "ensure_dirs", "parse_selected_tasks">>]
       ELSE IF ~(ConfigFieldsRead \subseteq AppConfigFields)
       THEN [error |-> "AttributeError",
             stages |-> <<"load_config", "ensure_dirs", "parse_selected_tasks">>]
       ELSE IF parsed.status = "raised"
       THEN [error |-> parsed.error,
             stages |-> <<"load_config", "ensure_dirs", "parse_selected_tasks",
                          "parse_exam">>]
       ELSE IF TranslateTaskRaises(i, parsed, i.tasks)
       THEN [error |-> "Exception",
             stages |-> <<"load_config", "ensure_dirs", "parse_selected_tasks",
                          "parse_exam", "translate_task">>]
       ELSE [error |-> None,
             stages |-> <<"load_config", "ensure_dirs", "parse_selected_tasks",
                          "parse_exam", "translate_task", "write_results_csv">>]

\* raise SystemExit(run()) / except Exception: raise SystemExit(1)
ExitStatus(outcome) == IF outcome.error = None THEN 0 ELSE 1

\* main()
Main ==
    /\ mpc = "start"
    /\ LET outcome == Run(inp)
       IN /\ exit_code' = ExitStatus(outcome)
          /\ stages' = outcome.stages
    /\ mpc' = "exited"
    /\ UNCHANGED inp
    /\ UNCHANGED <<dvars, pvars>>

\* input files: well formed, no </exam>, no <exam>, empty
InputFiles ==
    { <<<<"<exam>", WS>>, <<"<zh_en>", WS>>, <<WS, "x", WS, "y", WS>>,
        <<"</zh_en>", WS>>, <<"</exam>", WS>>>>,
      <<<<"<exam>", WS>>, <<"<en_zh>", WS>>, <<WS, "x", WS, "y", WS>>>>,
      <<<<"<zh_en>", WS>>, <<WS, "x", WS, "y", WS>>, <<"</exam>", WS>>>>,
      <<<<"<exam>", WS>>, <<"</exam>", WS>>>> }

Inputs ==
    [api_key : BOOLEAN, model_name : BOOLEAN,
     arg_workers : {<<>>, <<0>>, <<MaxWorkers>>}, env_workers : {0, MaxWorkers},
     continue_on_error : BOOLEAN, item_fails : BOOLEAN,
     tasks : {<<"zh_en", "en_zh">>, <<"en_zh">>, <<"ja_en">>},
     input : [exists : {TRUE}, lines : InputFiles]
               \cup {[exists |-> FALSE, lines |-> <<>>]}]

\* ------------------------------------------------- components at rest
DispatcherAtRest ==
    /\ task = "zh_en"
    /\ items = <<>>
    /\ continue_on_error = TRUE
    /\ workers = 1
    /\ retries = 1
    /\ pc = "idle"
    /\ rows = <<>>
    /\ success_count = 0
    /\ fail_count = 0
    /\ sub_i = 0
    /\ cancel_i = 0
    /\ yielded = <<>>
    /\ trigger = 0
    /\ exc = NoError
    /\ futures = <<>>
    /\ queue = <<>>
    /\ threads = 0
    /\ frames = <<>>

ParserAtRest ==
    /\ lines = <<>>
    /\ ps = FreshLocals(NoOutcome)
    /\ call_no = 0
    /\ first = NoOutcome

NoInput ==
    [api_key |-> FALSE, model_name |-> FALSE, arg_workers |-> <<>>,
     env_workers |-> 0, continue_on_error |-> TRUE, item_fails |-> FALSE,
     tasks |-> <<>>, input |-> [exists |-> FALSE, lines |-> <<>>]]

MainAtRest ==
    /\ inp = NoInput
    /\ mpc = "idle"
    /\ exit_code = 0
    /\ stages = <<>>

\* -------------------------------------------- specification: translate_task
DInit ==
    /\ task \in Tasks
    /\ \E n \in 0..MaxItems : items = Batch(n)
    /\ continue_on_error \in BOOLEAN
    /\ workers \in 1..MaxWorkers
    /\ retries \in RetryValues
    /\ pc = "entry"
    /\ rows = <<>>
    /\ success_count = 0
    /\ fail_count = 0
    /\ sub_i = 0
    /\ cancel_i = 0
    /\ yielded = <<>>
    /\ trigger = 0
    /\ exc = NoError
    /\ futures = [i \in Idx |->
                    [state |-> "NEW", result |-> TranslationResult(<<>>, NoError)]]
    /\ queue = <<>>
    /\ threads = 0
    /\ frames = [i \in Idx |-> IdleFrame]

Init == DInit /\ ParserAtRest /\ MainAtRest

Next ==
    \/ Enter
    \/ Submit
    \/ WorkerTake
    \/ \E i \in Idx : AttemptSucceeds(i)
    \/ \E i \in Idx : AttemptFails(i)
    \/ \E i \in Idx : Sleep(i)
    \/ \E i \in Idx : Collect(i)
    \/ CollectDone
    \/ Cancel
    \/ ThreadExit
    \/ Leave

Spec == Init /\ [][Next]_vars

\* the threads stay scheduled and every adapter call returns or raises
FairSpec == Spec /\ WF_vars(Next)

\* ------------------------------------------------ specification: parse_exam
PInit ==
    /\ lines \in Files
    /\ ps = FreshLocals(NoOutcome)
    /\ call_no = 1
    /\ first = NoOutcome

ParseInit == PInit /\ DispatcherAtRest /\ MainAtRest

ParseNext ==
    \/ ReadLine
    \/ Exhausted
    \/ Finish
    \/ CallAgain

SpecParse == ParseInit /\ [][ParseNext]_vars

\* ------------------------------------------------------ specification: main
MInit ==
    /\ inp \in Inputs
    /\ mpc = "start"
    /\ exit_code = 0
    /\ stages = <<>>

MainInit == MInit /\ DispatcherAtRest /\ ParserAtRest

MainNext == Main

SpecMain == MainInit /\ [][MainNext]_vars

\* ------------------------------------------------ properties: dispatcher
Returned == pc = "returned"
Raised == pc = "raised"
Failed(i) == futures[i].state = "FINISHED" /\ futures[i].result.error # NoError
ObservedFailures == {i \in Yielded : futures[i].result.error # NoError}
NoNewStart ==
    \A j \in Idx : futures'[j].state = "RUNNING" => futures[j].state = "RUNNING"

\* C1: whenever translate_task returns, rows has the length of items and
\* rows[i] holds items[i], whatever the order in which the workers completed.
C1_OrderPreserved ==
    Returned =>
        /\ Len(rows) = Len(items)
        /\ \A i \in Idx : rows[i][1] = items[i]

\* C1 witness: a return after the last of several items arrived first.
C1_Witness ==
    /\ Returned
    /\ N >= 2
    /\ yielded[1] = N
    /\ workers >= 2

\* C2: whenever translate_task returns, success_count + fail_count = len(items).
C2_CountInvariant == Returned => success_count + fail_count = Len(items)

\* C2 witness: a return with both successes and failures counted.
C2_Witness == Returned /\ success_count >= 1 /\ fail_count >= 1

\* C3: for a supported task and an item whose every adapter call fails,
\* translate calls the adapter exactly config.retries times and returns the
\* failure result.
C3_RetryBound ==
    \A i \in Idx :
        (frames[i].pc = "done" /\ task \in SYSTEM_PROMPTS /\ frames[i].ok_calls = 0)
            => /\ frames[i].calls = retries
               /\ frames[i].result.error # NoError

\* C4 as claimed: under abort policy, once some item's translate call has
\* returned a failure, no other item's execution newly starts.
C4_NoStartAfterFailure ==
    [][(~continue_on_error /\ \E i \in Idx : Failed(i)) => NoNewStart]_vars

\* C4 amended: under abort policy, once the dispatcher has observed a failure
\* and finished requesting cancellation of every submitted item, no item's
\* execution newly starts; items already running may still finish.
C4_NoStartAfterCancel ==
    [][(~continue_on_error /\ exc # NoError /\ pc \in {"shutdown", "raised"})
          => NoNewStart]_vars

\* C4 witness: cancellation has been requested for every item while one item
\* is still running and another was cancelled before it started.
C4_Witness ==
    /\ ~continue_on_error
    /\ exc # NoError
    /\ pc = "shutdown"
    /\ \E i \in Idx : futures[i].state = "RUNNING"
    /\ \E i \in Idx : futures[i].state = "CANCELLED"

\* C5: under abort policy, a failure the dispatcher observes makes
\* translate_task raise that item's error and never return; it returns only
\* when no item failed.
C5_AbortRaises ==
    ~continue_on_error =>
        /\ ObservedFailures # {} =>
              /\ ~Returned
              /\ trigger \in ObservedFailures
              /\ exc = futures[trigger].result.error
        /\ Raised => ObservedFailures # {}
        /\ Returned => /\ fail_count = 0
                       /\ \A i \in Idx : /\ futures[i].state = "FINISHED"
                                         /\ futures[i].result.error = NoError

\* C5 witness: translate_task has raised after collecting a success first.
C5_Witness ==
    /\ ~continue_on_error
    /\ Raised
    /\ success_count >= 1
    /\ exc = futures[trigger].result.error

\* C6: under continue policy every item is executed whatever failed before,
\* translate_task eventually returns one row per item, and it never raises.
C6_ContinueCompletes ==
    /\ continue_on_error =>
          <>(/\ Returned
             /\ Len(rows) = Len(items)
             /\ \A i \in Idx : frames[i].pc = "done")
    /\ [](continue_on_error => ~Raised /\ exc = NoError)

\* C6 witness: a continue-policy run returned although several items failed,
\* the first collected one among them.
C6_Witness ==
    /\ continue_on_error
    /\ Returned
    /\ fail_count >= 2
    /\ yielded[1] \in ObservedFailures
    /\ success_count >= 1

\* C7: when translate_task returns or raises, no worker is executing an item,
\* nothing is queued, no thread is alive, and every item is finished or was
\* cancelled before it started.
C7_PoolDrained ==
    (Returned \/ Raised) =>
        /\ Running = {}
        /\ queue = <<>>
        /\ threads = 0
        /\ \A i \in Idx : futures[i].state \in {"FINISHED", "CANCELLED"}

\* C7 witness: translate_task raised with one item cancelled before it started
\* and another that finished after the failure was observed.
C7_Witness ==
    /\ Raised
    /\ \E i \in Idx : futures[i].state = "CANCELLED"
    /\ \E i \in Idx : futures[i].state = "FINISHED" /\ i \notin Yielded

\* the writes made to slot i: one per future as_completed yielded for it
SlotWrites(i) == Cardinality({k \in 1..Len(yielded) : yielded[k] = i})
Succeeded == {i \in Idx : futures[i].state = "FINISHED" /\ futures[i].result.error = NoError}
Min(a, b) == IF a <= b THEN a ELSE b

\* C13: after the blank initialisation a slot changes only in the step that
\* collects its own future, no slot is written twice, and at return every
\* slot has been written exactly once.
C13_SingleWritePerSlot ==
    /\ [][(pc # "entry") =>
             \A i \in Idx : rows'[i] # rows[i] => yielded' = Append(yielded, i)]_vars
    /\ [](\A i \in Idx : SlotWrites(i) <= 1)
    /\ [](Returned => \A i \in Idx : SlotWrites(i) = 1)

\* C13 witness: a return of a batch run by several workers in which the
\* first slot was written last.
C13_Witness ==
    /\ Returned
    /\ N >= 2
    /\ workers >= 2
    /\ yielded[N] = 1
    /\ \A i \in Idx : SlotWrites(i) = 1

\* C14: at return rows[i] pairs items[i] with the text its own invocation
\* returned (the stripped translation of its source) when it succeeded and
\* with the empty text when it failed, and the counters count exactly the
\* succeeded and the failed items.
C14_OutcomePairing ==
    Returned =>
        /\ \A i \in Idx :
              /\ rows[i] = <<items[i],
                             IF i \in Succeeded THEN futures[i].result.text ELSE <<>>>>
              /\ frames[i].ok_calls = 1 => rows[i][2] = <<"T">> \o items[i].source
        /\ success_count = Cardinality(Succeeded)
        /\ fail_count = Cardinality(Idx \ Succeeded)

\* C14 witness: a return where a later item was collected before an earlier
\* one, one of them translated and the other failed.
C14_Witness ==
    /\ Returned
    /\ N >= 2
    /\ yielded[1] # 1
    /\ \E i \in Idx : frames[i].ok_calls = 1 /\ rows[i][2] = <<"T">> \o items[i].source
    /\ \E i \in Idx : i \notin Succeeded /\ rows[i][2] = <<>>

\* C15: the items executing at any moment are at most min(workers,
\* len(items)), and so are the threads alive.
C15_BoundedParallelism ==
    /\ Cardinality(Running) <= Min(workers, N)
    /\ threads <= Min(workers, N)

\* C15 witness: more workers than items, and every item executing at once.
C15_Witness ==
    /\ workers > N
    /\ N >= 1
    /\ Cardinality(Running) = N

\* C19: on an empty batch translate_task returns at once with empty rows and
\* zero counts; no thread, future, queue entry or translate frame ever exists.
C19_EmptyBatch ==
    N = 0 =>
        /\ pc \in {"entry", "returned"}
        /\ threads = 0
        /\ queue = <<>>
        /\ futures = <<>>
        /\ frames = <<>>
        /\ Returned => rows = <<>> /\ success_count = 0 /\ fail_count = 0

\* C19 witness: the empty batch has returned.
C19_Witness == N = 0 /\ Returned /\ rows = <<>>

\* C16: under abort policy an observed failure makes the dispatcher request
\* cancellation of every item before it raises; an item still queued when its
\* cancellation is requested is cancelled and never starts; an item that is
\* executing is never interrupted and has run to completion when
\* translate_task raises, which it eventually does.
C16_BestEffortCancel ==
    /\ [][~continue_on_error =>
             \A j \in Idx :
                /\ (pc = "cancel" /\ cancel_i = j /\ cancel_i' = j + 1
                        /\ futures[j].state = "PENDING")
                      => futures'[j].state = "CANCELLED"
                /\ futures[j].state = "CANCELLED"
                      => futures'[j].state = "CANCELLED" /\ frames'[j] = IdleFrame
                /\ futures[j].state = "RUNNING"
                      => futures'[j].state \in {"RUNNING", "FINISHED"}]_vars
    /\ []((~continue_on_error /\ ObservedFailures # {})
             => pc \in {"cancel", "shutdown", "raised"})
    /\ [](Raised =>
             /\ cancel_i = N + 1
             /\ \A j \in Idx : futures[j].state = "FINISHED" => frames[j].pc = "done")
    /\ (~continue_on_error => [](ObservedFailures # {} => <>Raised))

\* C16 witness: translate_task raised; an item that was queued was cancelled
\* and never started, and an item that was executing when the failure was
\* observed went on to a successful translation.
C16_Witness ==
    /\ Raised
    /\ \E j \in Idx : futures[j].state = "CANCELLED" /\ frames[j] = IdleFrame
    /\ \E k \in Idx : /\ k \notin Yielded
                      /\ frames[k].ok_calls = 1
                      /\ futures[k].result.text = <<"T">> \o items[k].source

TranslateDone(i) == frames[i].pc = "done" /\ task \in SYSTEM_PROMPTS
AllAttemptsFailed(i) == TranslateDone(i) /\ frames[i].ok_calls = 0
LinearSleeps(n) == [k \in 1..n |-> BackoffBaseMs * k]

\* C17: when every attempt of an item failed, the failure returned is the
\* error of the final attempt, attempt number config.retries; when attempt k
\* succeeded, the result carries no error, the adapter was called exactly k
\* times, and a translate call that has returned makes no further call.
C17_LastErrorWins ==
    /\ [](\A i \in Idx :
            /\ AllAttemptsFailed(i) =>
                  frames[i].result =
                      [text |-> <<>>,
                       error |-> [kind |-> "Exception", attempt |-> retries]]
            /\ (TranslateDone(i) /\ frames[i].ok_calls = 1) =>
                  /\ frames[i].result.error = NoError
                  /\ frames[i].calls = frames[i].attempt)
    /\ [][\A i \in Idx : frames[i].pc = "done" => frames'[i] = frames[i]]_vars

\* C18: the backoff sleeps of an item are 500 ms times 1, 2, ... in order,
\* one after each failed attempt that has attempts remaining: a translated
\* item slept once per failed attempt before its success, and an item whose
\* attempts all failed slept exactly retries - 1 times.
C18_LinearBackoff ==
    \A i \in Idx :
        /\ frames[i].pc \in {"call", "sleep", "done"} =>
              \E n \in 0..frames[i].calls : frames[i].sleeps = LinearSleeps(n)
        /\ (TranslateDone(i) /\ frames[i].ok_calls = 1) =>
              Len(frames[i].sleeps) = frames[i].calls - 1
        /\ AllAttemptsFailed(i) => Len(frames[i].sleeps) = retries - 1

\* C20: a result without error comes only from an adapter call that
\* succeeded, so success_count counts only items some call translated.
C20_SuccessNeedsCall ==
    /\ \A i \in Idx :
          (frames[i].pc = "done" /\ frames[i].result.error = NoError)
              => frames[i].ok_calls >= 1
    /\ Returned => success_count = Cardinality({i \in Idx : frames[i].ok_calls >= 1})

\* ---------------------------------------------------- properties: parser
IsLine(raw, marker) == Strip(raw) = <<marker>>
HasLine(marker) == \E k \in 1..Len(lines) : IsLine(lines[k], marker)
ParseDone == ps.pc \in {"returned", "raised"}

\* C8: parse_exam raises for every file with no <exam> line, and for every
\* file in which <exam> is seen and no </exam> line follows before the end.
C8_MalformedRejected ==
    (ParseDone /\ (~HasLine("<exam>") \/ ~HasLine("</exam>"))) => ps.pc = "raised"

\* C8 witness: a parse that captured an item inside <exam> and raised because
\* the file ended without </exam>.
C8_Witness ==
    /\ ps.pc = "raised"
    /\ HasLine("<exam>")
    /\ ~HasLine("</exam>")
    /\ \E t \in VALID_TASKS : ps.tasks[t] # <<>>

JustRead == ps.pc = "loop" /\ ps'.line_no = ps.line_no + 1
NextStripped == Strip(lines[ps.line_no + 1])
InTask == ps.inside_exam /\ ps.current_task # None
Markers ==
    {<<"<exam>">>, <<"</exam>">>, <<"<zh_en>">>, <<"</zh_en>">>,
     <<"<en_zh>">>, <<"</en_zh>">>}
OwnClose(t) == IF t = "zh_en" THEN <<"</zh_en>">> ELSE <<"</en_zh>">>
IsText(s) == s # <<>> /\ Head(s) # "#"
Captures ==
    ps'.tasks = [ps.tasks EXCEPT ![ps.current_task] =
                    Append(@, [source |-> NextStripped, line_no |-> ps.line_no + 1])]

\* C11 as claimed: inside a task block every non-blank, non-comment line that
\* is neither </exam> nor the task's own closing marker is appended to that
\* task with the stripped source and the 1-based line number; outside a task
\* block nothing is captured.
C11_CaptureAllButOwnClose ==
    [][JustRead =>
          IF InTask /\ IsText(NextStripped)
                /\ NextStripped \notin {<<"</exam>">>, OwnClose(ps.current_task)}
          THEN Captures
          ELSE ~InTask => ps'.tasks = ps.tasks]_vars

\* C11 amended: inside a task block every non-blank, non-comment line that is
\* none of the six markers is appended to that task, in file order, with the
\* stripped source and the 1-based line number; every other line, and every
\* line outside a task block, leaves the task lists unchanged.
C11_CaptureNonMarkers ==
    [][JustRead =>
          IF InTask /\ IsText(NextStripped) /\ NextStripped \notin Markers
          THEN Captures
          ELSE ps'.tasks = ps.tasks]_vars

\* C11 witness: the line just read, the third or a later one, is the last
\* item of the open task, stripped of its whitespace.
C11_Witness ==
    /\ ps.pc = "loop"
    /\ ps.line_no >= 3
    /\ InTask
    /\ ps.tasks[ps.current_task] # <<>>
    /\ LET its == ps.tasks[ps.current_task]
       IN its[Len(its)] = [source |-> <<"x", WS, "y">>, line_no |-> ps.line_no]

FirstClose ==
    CHOOSE k \in 1..Len(lines) :
        /\ IsLine(lines[k], "</exam>")
        /\ \A j \in 1..(k - 1) : ~IsLine(lines[j], "</exam>")

\* C12: parse_exam stops at the first </exam> line: no later line is read,
\* and no item comes from a later line, whatever follows.
C12_StopsAtFirstClose ==
    (call_no \in {1, 2} /\ HasLine("</exam>")) =>
        /\ ps.line_no <= FirstClose
        /\ ps.line_no = FirstClose =>
              /\ ps.pc \in {"after", "returned", "raised"}
              /\ ~ps.inside_exam
              /\ ps.current_task = None
        /\ \A t \in VALID_TASKS : \A k \in 1..Len(ps.tasks[t]) :
              ps.tasks[t][k].line_no < FirstClose

\* C12 witness: a parse returned at the first </exam> although a later
\* <exam> line with a line after it follows.
C12_Witness ==
    /\ ps.pc = "returned"
    /\ HasLine("</exam>")
    /\ ps.line_no = FirstClose
    /\ \E j \in (FirstClose + 1)..Len(lines) :
          IsLine(lines[j], "<exam>") /\ j < Len(lines)

\* ------------------------------------------------------ properties: main
Made(call) == \E k \in 1..Len(stages) : stages[k] = call
ValidConfiguration(i) == i.api_key /\ i.model_name /\ ResolvedWorkers(i) >= 1
ValidSelection(i) == \A k \in 1..Len(i.tasks) : i.tasks[k] \in VALID_TASKS
WellFormedInput(i) == ParseExam(i.input).status = "returned"
DispatchCompletes(i) == i.continue_on_error \/ ~i.item_fails
AbortFailure(i) ==
    /\ ValidSelection(i)
    /\ ~i.continue_on_error
    /\ i.item_fails
    /\ \E k \in 1..Len(i.tasks) : ParseExam(i.input).tasks[i.tasks[k]] # <<>>

\* C10: with a valid configuration, a well-formed input and a dispatch that
\* completes, main exits 0; a configuration, parse or abort-policy failure
\* exits non-zero; a configuration failure precedes any parsing or dispatch.
C10_ExitContract ==
    mpc = "exited" =>
        /\ (/\ ValidConfiguration(inp)
            /\ ValidSelection(inp)
            /\ WellFormedInput(inp)
            /\ DispatchCompletes(inp)) => exit_code = 0
        /\ ~ValidConfiguration(inp) =>
              /\ exit_code # 0
              /\ ~Made("parse_exam")
              /\ ~Made("translate_task")
        /\ ~WellFormedInput(inp) => exit_code # 0
        /\ AbortFailure(inp) => exit_code # 0

====
